---- MODULE Spec2Model ----
(***************************************************************************)
(* Model of the pipeline-validation backend of vec_shift: the handler      *)
(* parse_pipeline (POST /pipelines/parse) and the cycle detector is_dag    *)
(* with its nested three-colour depth-first search.                        *)
(*                                                                         *)
(* A request carries a node list (identifiers; every other field of a node *)
(* is ignored by the code) and an edge list (source, target pairs).  The   *)
(* handler answers num_nodes, num_edges and is_dag.  The iteration order   *)
(* of the Python set node_ids is not fixed by the language, so the handler *)
(* draws it from every permutation of the set.                             *)
(***************************************************************************)
EXTENDS Integers, Sequences, FiniteSets, TLC

\* ---------------------------------------------------------------- bounds
\* Longest node list and longest edge list of a request.
MaxNodes == 3
MaxEdges == 3

\* The identifiers a request may use, as node ids and as edge endpoints.
Ids == {"A", "B", "C"}

\* ------------------------------------------------------------- constants
WHITE == 0
GRAY == 1
BLACK == 2

VARIABLES
    pc,        \* "idle" | "handling" | "responded"
    nodes,     \* pipeline.nodes: sequence of node identifiers
    edges,     \* pipeline.edges: sequence of [source, target] records
    order,     \* iteration order of the set node_ids in this pass
    response   \* PipelineResponse, or the failure of the handler

\* The handler seen call by call, and the pass of is_dag seen step by step:
\* one record of locals per worker thread that runs the handler.
VARIABLES
    wpc,       \* worker -> "idle" | "received" | "outer" | "dfs" | "unwind"
               \*           | "returned" | "responded"
    wnodes,    \* worker -> pipeline.nodes of its request
    wedges,    \* worker -> pipeline.edges of its request
    word,      \* worker -> iteration order of its set node_ids
    wadj,      \* dict object -> adjacency map (is_dag.adj)
    wcolor,    \* dict object -> colour map (is_dag.color)
    wstack,    \* worker -> frames of dfs, the innermost last: [node, i]
    wk,        \* worker -> position of the outer loop in word
    wresult,   \* worker -> what is_dag returned: [raised, ok], or NoResult
    wentered,  \* worker -> how often dfs was entered per node in this pass
    wresponse, \* worker -> the PipelineResponse of its request
    prev       \* worker -> the response of its previous call on this request

\* The editor in the browser.
VARIABLES
    canvas,    \* PipelineUI and Flow: [nodes, edges, nodeIDs, eraserMode, event]
    submit     \* SubmitButton: [isLoading, result, error, pc, payload, body]

reqVars == <<pc, nodes, edges, order, response>>

uiVars == <<canvas, submit>>

passVars == <<wpc, wnodes, wedges, word, wadj, wcolor, wstack, wk, wresult,
              wentered, wresponse, prev>>

vars == <<pc, nodes, edges, order, response, wpc, wnodes, wedges, word, wadj,
          wcolor, wstack, wk, wresult, wentered, wresponse, prev, canvas, submit>>

\* ------------------------------------------------------------ data model
Edge == [source : Ids, target : Ids]

SeqsUpTo(S, n) == UNION {[1..k -> S] : k \in 0..n}

Range(s) == {s[i] : i \in 1..Len(s)}

\* All orders in which a set can be iterated.
Perms(S) == {p \in [1..Cardinality(S) -> S] : Range(p) = S}

NoResponse == [status |-> "none"]

\* The worker threads that may run the handler at the same time.
Workers == {1, 2}

NoResult == [raised |-> FALSE, ok |-> FALSE, none |-> TRUE]

\* No worker has a request.
PassIdle ==
    /\ wpc = [p \in Workers |-> "idle"]
    /\ wnodes = [p \in Workers |-> <<>>]
    /\ wedges = [p \in Workers |-> <<>>]
    /\ word = [p \in Workers |-> <<>>]
    /\ wadj = [p \in Workers |-> <<>>]
    /\ wcolor = [p \in Workers |-> <<>>]
    /\ wstack = [p \in Workers |-> <<>>]
    /\ wk = [p \in Workers |-> 0]
    /\ wresult = [p \in Workers |-> NoResult]
    /\ wentered = [p \in Workers |-> <<>>]
    /\ wresponse = [p \in Workers |-> NoResponse]
    /\ prev = [p \in Workers |-> NoResponse]

\* The last event was no click. For a click, `event` keeps what was clicked
\* and how many connections the click removed.
NoEvent == [type |-> "none", id |-> "", removed |-> 0]

\* useState([]) for nodes and edges, useRef({}) for the counters,
\* useState(false) for the eraser.
CanvasInit ==
    [nodes |-> <<>>, edges |-> <<>>, nodeIDs |-> [t \in {} |-> 0],
     eraserMode |-> FALSE, event |-> NoEvent]

\* useState(null) for result and error.
NullResult == [status |-> "null"]

NullError == "null"

NoPayload == [nodes |-> <<>>, edges |-> <<>>]

\* useState(false) for isLoading; no handleSubmit is running.
SubmitInit ==
    [isLoading |-> FALSE, result |-> NullResult, error |-> NullError,
     pc |-> "idle", payload |-> NoPayload, body |-> NullResult]

\* -------------------------------------------------------- graph builder
\* node_ids = {node.id for node in nodes}
NodeIds(ns) == Range(ns)

\* adj = {node_id: [] for node_id in node_ids}
EmptyAdj(node_ids) == [n \in node_ids |-> <<>>]

\* Variant: the edge is appended without the membership test.
SourceKnownAlways(adj, edge) == TRUE

\* if edge.source in adj
SourceKnown(adj, edge) == edge.source \in DOMAIN adj

\* Variant: the target is put at the front of the list (insert(0, target)).
RECURSIVE AddEdgesPrepend(_, _, _)
AddEdgesPrepend(adj, es, i) ==
    IF i > Len(es) THEN [raised |-> FALSE, adj |-> adj]
    ELSE LET edge == es[i] IN
         IF SourceKnown(adj, edge)
         THEN IF edge.source \in DOMAIN adj
              THEN AddEdgesPrepend([adj EXCEPT ![edge.source] = <<edge.target>> \o @],
                                   es, i + 1)
              ELSE [raised |-> TRUE, adj |-> adj]
         ELSE AddEdgesPrepend(adj, es, i + 1)

\* for edge in edges: if edge.source in adj: adj[edge.source].append(edge.target)
\* The subscript adj[edge.source] raises KeyError on a missing key: the inner
\* test is that of the subscript, and the result carries `raised`.
RECURSIVE AddEdges(_, _, _)
AddEdges(adj, es, i) ==
    IF i > Len(es) THEN [raised |-> FALSE, adj |-> adj]
    ELSE LET edge == es[i] IN
         IF SourceKnown(adj, edge)
         THEN IF edge.source \in DOMAIN adj
              THEN AddEdges([adj EXCEPT ![edge.source] = Append(@, edge.target)],
                            es, i + 1)
              ELSE [raised |-> TRUE, adj |-> adj]
         ELSE AddEdges(adj, es, i + 1)

\* color = {node_id: WHITE for node_id in node_ids}
InitColor(node_ids) == [n \in node_ids |-> WHITE]

\* ------------------------------------------------------- cycle detector
\* adj.get(node, [])
AdjGet(adj, node) == IF node \in DOMAIN adj THEN adj[node] ELSE <<>>

\* Variant: the lookup color[neighbor] is made without the membership test.
NeighborUnknownNever(color, neighbor) == FALSE

\* if neighbor not in color: continue
NeighborUnknown(color, neighbor) == neighbor \notin DOMAIN color

\* Variant: a node's edge to itself is not looked at.
BackEdgeNotSelf(color, node, neighbor) == neighbor # node /\ color[neighbor] = GRAY

\* Variant: every neighbour already seen counts as a back edge.
BackEdgeOrDone(color, node, neighbor) == color[neighbor] # WHITE

\* if color[neighbor] == GRAY: return False
IsBackEdge(color, node, neighbor) == color[neighbor] = GRAY

\* Variant: a finished neighbour is entered again.
IsUnvisitedOrDone(color, neighbor) == color[neighbor] # GRAY

\* Variant: the recursive call is never made.
IsUnvisitedNever(color, neighbor) == FALSE

\* if color[neighbor] == WHITE: recurse
IsUnvisited(color, neighbor) == color[neighbor] = WHITE

\* Variant: a plain visited set, the node is marked finished on entry.
EnterAsDone(color, node) == [color EXCEPT ![node] = BLACK]

\* Variant: dfs does not mark the node it is entered for.
EnterUnmarked(color, node) == color

\* color[node] = GRAY on entry of dfs
Enter(color, node) == [color EXCEPT ![node] = GRAY]

\* Variant: the node is left in progress when its loop ends.
FinishForgotten(color, node) == color

\* color[node] = BLACK after the neighbour loop
Finish(color, node) == [color EXCEPT ![node] = BLACK]

\* dfs(node): ok is its return value, color the shared map after the call,
\* raised tells that a KeyError left the call (the subscript color[neighbor]
\* on a missing key, the test after NeighborUnknown in DfsLoop).
RECURSIVE dfs(_, _, _)
RECURSIVE DfsLoop(_, _, _, _)

\* Variant: the value returned by the recursive call is dropped.
RECURSIVE DfsLoopDropsResult(_, _, _, _)
DfsLoopDropsResult(node, adj, color, i) ==
    IF i > Len(AdjGet(adj, node))
    THEN [raised |-> FALSE, ok |-> TRUE, color |-> Finish(color, node)]
    ELSE LET neighbor == AdjGet(adj, node)[i] IN
         IF NeighborUnknown(color, neighbor)
         THEN DfsLoopDropsResult(node, adj, color, i + 1)
         ELSE IF IsBackEdge(color, node, neighbor)
         THEN [raised |-> FALSE, ok |-> FALSE, color |-> color]
         ELSE IF IsUnvisited(color, neighbor)
         THEN DfsLoopDropsResult(node, adj, dfs(neighbor, adj, color).color, i + 1)
         ELSE DfsLoopDropsResult(node, adj, color, i + 1)

dfs(node, adj, color) == DfsLoop(node, adj, Enter(color, node), 1)

DfsLoop(node, adj, color, i) ==
    IF i > Len(AdjGet(adj, node))
    THEN [raised |-> FALSE, ok |-> TRUE, color |-> Finish(color, node)]
    ELSE LET neighbor == AdjGet(adj, node)[i] IN
         IF NeighborUnknown(color, neighbor)
         THEN DfsLoop(node, adj, color, i + 1)
         ELSE IF neighbor \notin DOMAIN color
         THEN [raised |-> TRUE, ok |-> FALSE, color |-> color]
         ELSE IF IsBackEdge(color, node, neighbor)
         THEN [raised |-> FALSE, ok |-> FALSE, color |-> color]
         ELSE IF IsUnvisited(color, neighbor)
         THEN LET r == dfs(neighbor, adj, color) IN
              IF r.raised \/ ~r.ok THEN r
              ELSE DfsLoop(node, adj, r.color, i + 1)
         ELSE DfsLoop(node, adj, color, i + 1)

\* Variant: the outer loop takes no node for unvisited.
StartsWalkNever(color, node_id) == FALSE

\* if color[node_id] == WHITE: start a walk from node_id
StartsWalk(color, node_id) == color[node_id] = WHITE

\* Variant: the loop returns the verdict of its first walk.
OuterLoopFirstWalk(ord, adj, color, k) ==
    IF k > Len(ord) THEN [raised |-> FALSE, ok |-> TRUE, color |-> color]
    ELSE dfs(ord[k], adj, color)

\* for node_id in node_ids: if color[node_id] == WHITE: if not dfs(node_id): return False
\* return True
RECURSIVE OuterLoop(_, _, _, _)
OuterLoop(ord, adj, color, k) ==
    IF k > Len(ord) THEN [raised |-> FALSE, ok |-> TRUE, color |-> color]
    ELSE IF StartsWalk(color, ord[k])
         THEN LET r == dfs(ord[k], adj, color) IN
              IF r.raised \/ ~r.ok THEN r
              ELSE OuterLoop(ord, adj, r.color, k + 1)
         ELSE OuterLoop(ord, adj, color, k + 1)

\* if not nodes: return True
EmptyNodes(ns) == Len(ns) = 0

\* is_dag(nodes, edges), the set node_ids being iterated in the order ord
is_dag(ns, es, ord) ==
    IF EmptyNodes(ns) THEN [raised |-> FALSE, ok |-> TRUE, color |-> <<>>]
    ELSE LET node_ids == NodeIds(ns)
             built == AddEdges(EmptyAdj(node_ids), es, 1)
         IN  IF built.raised
             THEN [raised |-> TRUE, ok |-> FALSE, color |-> InitColor(node_ids)]
             ELSE OuterLoop(ord, built.adj, InitColor(node_ids), 1)

\* Variant: counts the distinct identifiers instead of the list entries.
NumNodesDistinct(ns) == Cardinality(NodeIds(ns))

\* num_nodes = len(pipeline.nodes)
NumNodes(ns) == Len(ns)

\* Variant: counts the distinct edges instead of the list entries.
NumEdgesDistinct(es) == Cardinality(Range(es))

\* num_edges = len(pipeline.edges)
NumEdges(es) == Len(es)

\* parse_pipeline: the response, or the failure when is_dag raised
parse_pipeline(ns, es, ord) ==
    LET num_nodes == NumNodes(ns)
        num_edges == NumEdges(es)
        dag_status == is_dag(ns, es, ord)
    IN  IF dag_status.raised
        THEN [status |-> "error"]
        ELSE [status |-> "ok", num_nodes |-> num_nodes,
              num_edges |-> num_edges, is_dag |-> dag_status.ok]

\* --------------------------------------------------------------- actions
Init ==
    /\ pc = "idle"
    /\ nodes = <<>>
    /\ edges = <<>>
    /\ order = <<>>
    /\ response = NoResponse
    /\ PassIdle
    /\ canvas = CanvasInit
    /\ submit = SubmitInit

\* A request body is decoded into PipelineRequest(nodes, edges).
Receive ==
    /\ pc = "idle"
    /\ \E ns \in SeqsUpTo(Ids, MaxNodes), es \in SeqsUpTo(Edge, MaxEdges) :
          /\ nodes' = ns
          /\ edges' = es
    /\ pc' = "handling"
    /\ UNCHANGED <<order, response>>
    /\ UNCHANGED passVars
    /\ UNCHANGED uiVars

\* The handler runs to its return statement.
ParsePipeline ==
    /\ pc = "handling"
    /\ \E ord \in Perms(NodeIds(nodes)) :
          /\ order' = ord
          /\ response' = parse_pipeline(nodes, edges, ord)
    /\ pc' = "responded"
    /\ UNCHANGED <<nodes, edges>>
    /\ UNCHANGED passVars
    /\ UNCHANGED uiVars

\* The response is sent; nothing of the request outlives it.
Respond ==
    /\ pc = "responded"
    /\ pc' = "idle"
    /\ nodes' = <<>>
    /\ edges' = <<>>
    /\ order' = <<>>
    /\ response' = NoResponse
    /\ UNCHANGED passVars
    /\ UNCHANGED uiVars

Next == Receive \/ ParsePipeline \/ Respond

Spec == Init /\ [][Next]_vars

\* ------------------------------------------ requests over four identifiers
\* Requests whose node list has no repeated identifier and whose edge list
\* has no repeated edge, every edge pointing forward in DagOrder: chains,
\* trees, diamonds and their sublists, in every order of either list.
MaxDagEdges == 4

DagOrder == <<"A", "B", "C", "D">>

DagIds == Range(DagOrder)

ForwardEdge ==
    {[source |-> DagOrder[p[1]], target |-> DagOrder[p[2]]] :
        p \in {q \in (1..Len(DagOrder)) \X (1..Len(DagOrder)) : q[1] < q[2]}}

DistinctSeqs(S, n) == UNION {Perms(T) : T \in {U \in SUBSET S : Cardinality(U) <= n}}

ReceiveDag ==
    /\ pc = "idle"
    /\ \E ns \in DistinctSeqs(DagIds, Cardinality(DagIds)),
          es \in DistinctSeqs(ForwardEdge, MaxDagEdges) :
          /\ nodes' = ns
          /\ edges' = es
    /\ pc' = "handling"
    /\ UNCHANGED <<order, response>>
    /\ UNCHANGED passVars
    /\ UNCHANGED uiVars

NextDag == ReceiveDag \/ ParsePipeline \/ Respond

SpecDag == Init /\ [][NextDag]_vars

\* ------------------------------------------------ the pass, step by step
\* Longest edge list of a request whose pass is followed step by step.
MaxPassEdges == 3

\* Variant: one module-level dictionary serves every call.
SlotShared(p) == 1

\* adj and color are created by the call: each call has dictionaries of its
\* own, named here by the worker that runs the call.
Slot(p) == p

\* Variant: a colour already in the dictionary is kept.
NewColorKeeps(old, node_ids) ==
    [n \in node_ids |-> IF n \in DOMAIN old THEN old[n] ELSE WHITE]

\* color = {node_id: WHITE for node_id in node_ids}: a new dictionary,
\* whatever the name was bound to before.
NewColor(old, node_ids) == InitColor(node_ids)

Returned(ok) == [raised |-> FALSE, ok |-> ok, none |-> FALSE]

Raised == [raised |-> TRUE, ok |-> FALSE, none |-> FALSE]

Frame(node) == [node |-> node, i |-> 1]

Top(st) == st[Len(st)]

Pop(st) == SubSeq(st, 1, Len(st) - 1)

\* Variant: the loop over the neighbours does not move on.
ResumeStuck(st) == st

\* The frame below the returned one goes on to its next neighbour.
Resume(st) ==
    IF st = <<>> THEN st ELSE [st EXCEPT ![Len(st)].i = @ + 1]

\* A request body is decoded into PipelineRequest(nodes, edges) for worker p.
Submit(p, ns, es) ==
    /\ wpc[p] = "idle"
    /\ wnodes' = [wnodes EXCEPT ![p] = ns]
    /\ wedges' = [wedges EXCEPT ![p] = es]
    /\ wpc' = [wpc EXCEPT ![p] = "received"]
    /\ UNCHANGED <<word, wadj, wcolor, wstack, wk, wresult, wentered, wresponse, prev>>
    /\ UNCHANGED reqVars
    /\ UNCHANGED uiVars

\* is_dag is called: the early return, or node_ids, adj and color are built
\* and the outer loop is about to start.
Call(p) ==
    /\ wpc[p] = "received"
    /\ IF EmptyNodes(wnodes[p])
       THEN /\ wresult' = [wresult EXCEPT ![p] = Returned(TRUE)]
            /\ wpc' = [wpc EXCEPT ![p] = "returned"]
            /\ UNCHANGED <<word, wadj, wcolor, wstack, wk, wentered>>
       ELSE \E ord \in Perms(NodeIds(wnodes[p])) :
              LET node_ids == NodeIds(wnodes[p])
                  built == AddEdges(EmptyAdj(node_ids), wedges[p], 1)
              IN  IF built.raised
                  THEN /\ wresult' = [wresult EXCEPT ![p] = Raised]
                       /\ wpc' = [wpc EXCEPT ![p] = "returned"]
                       /\ UNCHANGED <<word, wadj, wcolor, wstack, wk, wentered>>
                  ELSE /\ word' = [word EXCEPT ![p] = ord]
                       /\ wadj' = [wadj EXCEPT ![Slot(p)] = built.adj]
                       /\ wcolor' = [wcolor EXCEPT ![Slot(p)] = NewColor(@, node_ids)]
                       /\ wstack' = [wstack EXCEPT ![p] = <<>>]
                       /\ wk' = [wk EXCEPT ![p] = 1]
                       /\ wentered' = [wentered EXCEPT ![p] = [n \in node_ids |-> 0]]
                       /\ wpc' = [wpc EXCEPT ![p] = "outer"]
                       /\ UNCHANGED wresult
    /\ UNCHANGED <<wnodes, wedges, wresponse, prev>>
    /\ UNCHANGED reqVars
    /\ UNCHANGED uiVars

\* One turn of `for node_id in node_ids`: the loop is over (return True), the
\* node is not WHITE, or dfs(node_id) is called and marks it GRAY.
OuterStep(p) ==
    /\ wpc[p] = "outer"
    /\ IF wk[p] > Len(word[p])
       THEN /\ wresult' = [wresult EXCEPT ![p] = Returned(TRUE)]
            /\ wpc' = [wpc EXCEPT ![p] = "returned"]
            /\ UNCHANGED <<wcolor, wstack, wk, wentered>>
       ELSE LET node_id == word[p][wk[p]]
                col == wcolor[Slot(p)]
            IN  IF node_id \notin DOMAIN col
                THEN /\ wresult' = [wresult EXCEPT ![p] = Raised]
                     /\ wpc' = [wpc EXCEPT ![p] = "returned"]
                     /\ UNCHANGED <<wcolor, wstack, wk, wentered>>
                ELSE IF StartsWalk(col, node_id)
                THEN /\ wcolor' = [wcolor EXCEPT ![Slot(p)] = Enter(col, node_id)]
                     /\ wstack' = [wstack EXCEPT ![p] = <<Frame(node_id)>>]
                     /\ wentered' = [wentered EXCEPT ![p][node_id] = @ + 1]
                     /\ wpc' = [wpc EXCEPT ![p] = "dfs"]
                     /\ UNCHANGED <<wk, wresult>>
                ELSE /\ wk' = [wk EXCEPT ![p] = @ + 1]
                     /\ UNCHANGED <<wcolor, wstack, wentered, wpc, wresult>>
    /\ UNCHANGED <<wnodes, wedges, word, wadj, wresponse, prev>>
    /\ UNCHANGED reqVars
    /\ UNCHANGED uiVars

\* The neighbour loop of the innermost dfs has neighbours left: the next one
\* is skipped (unknown, or BLACK), found GRAY (return False), or entered.
Examine(p) ==
    /\ wpc[p] = "dfs"
    /\ LET f == Top(wstack[p])
           col == wcolor[Slot(p)]
           nbrs == AdjGet(wadj[Slot(p)], f.node)
       IN  /\ f.i <= Len(nbrs)
           /\ LET neighbor == nbrs[f.i] IN
              IF NeighborUnknown(col, neighbor)
              THEN /\ wstack' = [wstack EXCEPT ![p] = Resume(@)]
                   /\ UNCHANGED <<wcolor, wentered, wpc, wresult>>
              ELSE IF neighbor \notin DOMAIN col
              THEN /\ wresult' = [wresult EXCEPT ![p] = Raised]
                   /\ wstack' = [wstack EXCEPT ![p] = <<>>]
                   /\ wpc' = [wpc EXCEPT ![p] = "returned"]
                   /\ UNCHANGED <<wcolor, wentered>>
              ELSE IF IsBackEdge(col, f.node, neighbor)
              THEN /\ wstack' = [wstack EXCEPT ![p] = Pop(@)]
                   /\ wpc' = [wpc EXCEPT ![p] = "unwind"]
                   /\ UNCHANGED <<wcolor, wentered, wresult>>
              ELSE IF IsUnvisited(col, neighbor)
              THEN /\ wcolor' = [wcolor EXCEPT ![Slot(p)] = Enter(col, neighbor)]
                   /\ wstack' = [wstack EXCEPT ![p] = Append(@, Frame(neighbor))]
                   /\ wentered' = [wentered EXCEPT ![p][neighbor] = @ + 1]
                   /\ UNCHANGED <<wpc, wresult>>
              ELSE /\ wstack' = [wstack EXCEPT ![p] = Resume(@)]
                   /\ UNCHANGED <<wcolor, wentered, wpc, wresult>>
    /\ UNCHANGED <<wnodes, wedges, word, wadj, wk, wresponse, prev>>
    /\ UNCHANGED reqVars
    /\ UNCHANGED uiVars

\* Variant: a dfs that is done with its node empties the node's list in adj.
LoopEndClearsAdj(p) ==
    /\ wpc[p] = "dfs"
    /\ LET f == Top(wstack[p])
           col == wcolor[Slot(p)]
           nbrs == AdjGet(wadj[Slot(p)], f.node)
       IN  /\ f.i > Len(nbrs)
           /\ wcolor' = [wcolor EXCEPT ![Slot(p)] = Finish(col, f.node)]
           /\ wadj' = [wadj EXCEPT ![Slot(p)] = [n \in DOMAIN @ |-> IF n = f.node THEN <<>> ELSE @[n]]]
           /\ wstack' = [wstack EXCEPT ![p] = Resume(Pop(@))]
           /\ IF Len(wstack[p]) = 1
              THEN /\ wk' = [wk EXCEPT ![p] = @ + 1]
                   /\ wpc' = [wpc EXCEPT ![p] = "outer"]
              ELSE UNCHANGED <<wk, wpc>>
    /\ UNCHANGED <<wnodes, wedges, word, wresult, wentered, wresponse, prev>>
    /\ UNCHANGED reqVars
    /\ UNCHANGED uiVars

\* The neighbour loop of the innermost dfs is over: the node is marked BLACK
\* and dfs returns True, to the dfs below or to the outer loop.
LoopEnd(p) ==
    /\ wpc[p] = "dfs"
    /\ LET f == Top(wstack[p])
           col == wcolor[Slot(p)]
           nbrs == AdjGet(wadj[Slot(p)], f.node)
       IN  /\ f.i > Len(nbrs)
           /\ wcolor' = [wcolor EXCEPT ![Slot(p)] = Finish(col, f.node)]
           /\ wstack' = [wstack EXCEPT ![p] = Resume(Pop(@))]
           /\ IF Len(wstack[p]) = 1
              THEN /\ wk' = [wk EXCEPT ![p] = @ + 1]
                   /\ wpc' = [wpc EXCEPT ![p] = "outer"]
              ELSE UNCHANGED <<wk, wpc>>
    /\ UNCHANGED <<wnodes, wedges, word, wadj, wresult, wentered, wresponse, prev>>
    /\ UNCHANGED reqVars
    /\ UNCHANGED uiVars

\* Variant: a dfs that returns False in turn marks its node BLACK first.
UnwindMarksDone(p) ==
    /\ wpc[p] = "unwind"
    /\ IF wstack[p] # <<>>
       THEN /\ wstack' = [wstack EXCEPT ![p] = Pop(@)]
            /\ wcolor' = [wcolor EXCEPT ![Slot(p)] = Finish(@, Top(wstack[p]).node)]
            /\ UNCHANGED <<wpc, wresult>>
       ELSE /\ wresult' = [wresult EXCEPT ![p] = Returned(FALSE)]
            /\ wpc' = [wpc EXCEPT ![p] = "returned"]
            /\ UNCHANGED <<wstack, wcolor>>
    /\ UNCHANGED <<wnodes, wedges, word, wadj, wk, wentered, wresponse, prev>>
    /\ UNCHANGED reqVars
    /\ UNCHANGED uiVars

\* A dfs returned False: the dfs that called it returns False in turn
\* (`if not dfs(neighbor): return False`), and at last the outer loop does.
Unwind(p) ==
    /\ wpc[p] = "unwind"
    /\ IF wstack[p] # <<>>
       THEN /\ wstack' = [wstack EXCEPT ![p] = Pop(@)]
            /\ UNCHANGED <<wpc, wresult>>
       ELSE /\ wresult' = [wresult EXCEPT ![p] = Returned(FALSE)]
            /\ wpc' = [wpc EXCEPT ![p] = "returned"]
            /\ UNCHANGED wstack
    /\ UNCHANGED <<wnodes, wedges, word, wadj, wcolor, wk, wentered, wresponse, prev>>
    /\ UNCHANGED reqVars
    /\ UNCHANGED uiVars

\* parse_pipeline returns its PipelineResponse.
Reply(p) ==
    /\ wpc[p] = "returned"
    /\ wresponse' = [wresponse EXCEPT ![p] =
          IF wresult[p].raised
          THEN [status |-> "error"]
          ELSE [status |-> "ok", num_nodes |-> NumNodes(wnodes[p]),
                num_edges |-> NumEdges(wedges[p]), is_dag |-> wresult[p].ok]]
    /\ wpc' = [wpc EXCEPT ![p] = "responded"]
    /\ UNCHANGED <<wnodes, wedges, word, wadj, wcolor, wstack, wk, wresult, wentered, prev>>
    /\ UNCHANGED reqVars
    /\ UNCHANGED uiVars

\* The response is sent and the worker is free again; the locals of the
\* call are gone.
Close(p) ==
    /\ wpc[p] = "responded"
    /\ wpc' = [wpc EXCEPT ![p] = "idle"]
    /\ wnodes' = [wnodes EXCEPT ![p] = <<>>]
    /\ wedges' = [wedges EXCEPT ![p] = <<>>]
    /\ word' = [word EXCEPT ![p] = <<>>]
    /\ wadj' = [wadj EXCEPT ![Slot(p)] = <<>>]
    /\ wcolor' = [wcolor EXCEPT ![Slot(p)] = <<>>]
    /\ wstack' = [wstack EXCEPT ![p] = <<>>]
    /\ wk' = [wk EXCEPT ![p] = 0]
    /\ wresult' = [wresult EXCEPT ![p] = NoResult]
    /\ wentered' = [wentered EXCEPT ![p] = <<>>]
    /\ wresponse' = [wresponse EXCEPT ![p] = NoResponse]
    /\ prev' = [prev EXCEPT ![p] = NoResponse]
    /\ UNCHANGED reqVars
    /\ UNCHANGED uiVars

\* The steps of a call between the request and its response.
Run(p) == Call(p) \/ OuterStep(p) \/ Examine(p) \/ LoopEnd(p) \/ Unwind(p) \/ Reply(p)

\* One worker, node lists without repeated identifier, any edge list.
SubmitPass ==
    /\ wpc[1] = "idle"
    /\ \E ns \in DistinctSeqs(Ids, Cardinality(Ids)), es \in SeqsUpTo(Edge, MaxPassEdges) :
          Submit(1, ns, es)

NextPass ==
    \/ SubmitPass
    \/ Call(1)
    \/ OuterStep(1)
    \/ Examine(1)
    \/ LoopEnd(1)
    \/ Unwind(1)
    \/ Reply(1)
    \/ Close(1)

SpecPass == Init /\ [][NextPass]_vars

\* ------------------------------------------------------------ the canvas
MaxDrops == 3

MaxConnects == 2

\* Two of the node types registered in nodeTypes.
NodeTypes == {"customInput", "llm"}

\* nodeIDsRef.current[type], 0 when the type has no counter yet.
Counter(ids, type) == IF type \in DOMAIN ids THEN ids[type] ELSE 0

\* The number of identifiers handed out so far.
RECURSIVE Issued(_, _)
Issued(ids, types) ==
    IF types = {} THEN 0
    ELSE LET t == CHOOSE u \in types : TRUE
         IN  Counter(ids, t) + Issued(ids, types \ {t})

\* Variant: the identifier is the counter alone.
FormatIdCountOnly(type, n) == ToString(n)

\* `${type}-${nodeIDsRef.current[type]}`
FormatId(type, n) == type \o "-" \o ToString(n)

\* getNodeID: the counter of the type goes up by one and names the node.
getNodeID(ids, type) ==
    LET n == Counter(ids, type) + 1
    IN  [nodeIDs |-> [t \in DOMAIN ids \cup {type} |-> IF t = type THEN n ELSE ids[t]],
         id |-> FormatId(type, n)]

\* The identifier addEdge gives a connection without handle names.
EdgeId(source, target) == "reactflow__edge-" \o source \o "-" \o target

\* addEdge: the connection is appended unless the list has one with the same
\* ends.
addEdge(source, target, eds) ==
    IF \E i \in 1..Len(eds) : eds[i].source = source /\ eds[i].target = target
    THEN eds
    ELSE Append(eds, [id |-> EdgeId(source, target), source |-> source, target |-> target])

\* nds.filter((n) => n.id !== id)
RemoveNode(nds, id) == SelectSeq(nds, LAMBDA n : n.id # id)

\* Variant: only the connections that leave the node are removed.
RemoveOutgoingOnly(eds, id) == SelectSeq(eds, LAMBDA e : e.source # id)

\* eds.filter((e) => e.source !== id && e.target !== id)
RemoveEdgesOf(eds, id) == SelectSeq(eds, LAMBDA e : e.source # id /\ e.target # id)

\* eds.filter((e) => e.id !== id)
RemoveEdge(eds, id) == SelectSeq(eds, LAMBDA e : e.id # id)

\* onDrop: a node of a type of the toolbar is dropped on the canvas, as long
\* as fewer than `max` identifiers were handed out.
DropUpTo(max) ==
    /\ Issued(canvas.nodeIDs, NodeTypes) < max
    /\ \E type \in NodeTypes :
          LET got == getNodeID(canvas.nodeIDs, type)
          IN  canvas' = [canvas EXCEPT !.nodeIDs = got.nodeIDs,
                                       !.nodes = Append(@, [id |-> got.id, type |-> type]),
                                       !.event = NoEvent]
    /\ UNCHANGED <<submit, reqVars, passVars>>

Drop == DropUpTo(MaxDrops)

\* onConnect: the user draws a connection between two nodes of the canvas, as
\* long as it has fewer than `max` connections.
ConnectUpTo(max) ==
    /\ Len(canvas.edges) < max
    /\ \E i, j \in 1..Len(canvas.nodes) :
          canvas' = [canvas EXCEPT
                        !.edges = addEdge(canvas.nodes[i].id, canvas.nodes[j].id, @),
                        !.event = NoEvent]
    /\ UNCHANGED <<submit, reqVars, passVars>>

Connect == ConnectUpTo(MaxConnects)

\* The eraser button: setEraserMode(!eraserMode)
ToggleEraser ==
    /\ canvas' = [canvas EXCEPT !.eraserMode = ~@, !.event = NoEvent]
    /\ UNCHANGED <<submit, reqVars, passVars>>

\* onNodeClick: in eraser mode the node and its connections go.
NodeClick ==
    /\ \E i \in 1..Len(canvas.nodes) :
          LET id == canvas.nodes[i].id IN
          canvas' =
              IF canvas.eraserMode
              THEN [canvas EXCEPT !.nodes = RemoveNode(@, id),
                                  !.edges = RemoveEdgesOf(@, id),
                                  !.event = [type |-> "node", id |-> id, removed |->
                                      Len(canvas.edges) - Len(RemoveEdgesOf(canvas.edges, id))]]
              ELSE [canvas EXCEPT !.event = [type |-> "node", id |-> id, removed |-> 0]]
    /\ UNCHANGED <<submit, reqVars, passVars>>

\* onEdgeClick: in eraser mode the connection goes.
EdgeClick ==
    /\ \E i \in 1..Len(canvas.edges) :
          LET id == canvas.edges[i].id IN
          canvas' =
              IF canvas.eraserMode
              THEN [canvas EXCEPT !.edges = RemoveEdge(@, id),
                                  !.event = [type |-> "edge", id |-> id, removed |->
                                      Len(canvas.edges) - Len(RemoveEdge(canvas.edges, id))]]
              ELSE [canvas EXCEPT !.event = [type |-> "edge", id |-> id, removed |-> 0]]
    /\ UNCHANGED <<submit, reqVars, passVars>>

NextCanvas == Drop \/ Connect \/ ToggleEraser \/ NodeClick \/ EdgeClick

SpecCanvas == Init /\ [][NextCanvas]_vars

\* ------------------------------------------------------ the submit button
MaxPayloadNodes == 2

MaxPayloadEdges == 1

\* getNodesAndEdges(): the lists of the last render of PipelineUI.
getNodesAndEdges == [nodes |-> canvas.nodes, edges |-> canvas.edges]

\* The identifiers the backend reads from the nodes of a payload.
PayloadIds(payload) == [i \in 1..Len(payload.nodes) |-> payload.nodes[i].id]

\* Variant: a new run keeps the result and the error of the last one.
StartedKeeps(s, payload) ==
    [s EXCEPT !.isLoading = TRUE, !.pc = "fetch", !.payload = payload]

\* setIsLoading(true); setError(null); setResult(null); the payload is taken
\* and fetch is called.
Started(s, payload) ==
    [s EXCEPT !.isLoading = TRUE, !.error = NullError, !.result = NullResult,
              !.pc = "fetch", !.payload = payload]

\* Variant: the run ends without setIsLoading(false).
FinallySkipped(s) ==
    [s EXCEPT !.pc = "idle", !.payload = NoPayload, !.body = NullResult]

\* finally { setIsLoading(false) }: the run of handleSubmit is over.
Finally(s) ==
    [s EXCEPT !.isLoading = FALSE, !.pc = "idle", !.payload = NoPayload,
              !.body = NullResult]

\* setResult(data), then the finally block.
Succeeded(s, data) == Finally([s EXCEPT !.result = data])

\* catch (err) { setError(err.message) }, then the finally block.
Failed(s, message) == Finally([s EXCEPT !.error = message])

\* A click on the submit button, which is disabled while isLoading.
ClickSubmit ==
    /\ ~submit.isLoading
    /\ submit' = Started(submit, getNodesAndEdges)
    /\ UNCHANGED <<canvas, reqVars, passVars>>

\* fetch rejects: the backend cannot be reached, or its answer is lost.
FetchRejects ==
    /\ submit.pc = "fetch"
    /\ submit' = Failed(submit, "Failed to fetch")
    /\ UNCHANGED <<canvas, reqVars, passVars>>

\* fetch resolves with a status that is not OK: `throw new Error(...)`.
FetchResolvesNotOk ==
    /\ submit.pc = "fetch"
    /\ \E status \in {"404", "422", "500"} :
          submit' = Failed(submit, "HTTP error! status: " \o status)
    /\ UNCHANGED <<canvas, reqVars, passVars>>

\* The backend handles the request: what parse_pipeline returns for the
\* payload is on its way back.
Serve ==
    /\ submit.pc = "fetch"
    /\ submit.body = NullResult
    /\ LET ids == PayloadIds(submit.payload) IN
       \E ord \in Perms(NodeIds(ids)) :
          submit' = [submit EXCEPT !.body = parse_pipeline(ids, submit.payload.edges, ord)]
    /\ UNCHANGED <<canvas, reqVars, passVars>>

\* fetch resolves with an OK status: response.json() is awaited.
FetchResolvesOk ==
    /\ submit.pc = "fetch"
    /\ submit.body # NullResult
    /\ submit.body.status = "ok"
    /\ submit' = [submit EXCEPT !.pc = "json"]
    /\ UNCHANGED <<canvas, reqVars, passVars>>

\* response.json() resolves with the body the backend sent.
JsonResolves ==
    /\ submit.pc = "json"
    /\ submit' = Succeeded(submit, submit.body)
    /\ UNCHANGED <<canvas, reqVars, passVars>>

\* response.json() rejects: the body is no JSON.
JsonRejects ==
    /\ submit.pc = "json"
    /\ submit' = Failed(submit, "Unexpected token")
    /\ UNCHANGED <<canvas, reqVars, passVars>>

\* closeModal, offered while the modal shows a result or an error.
CloseModal ==
    /\ submit.result # NullResult \/ submit.error # NullError
    /\ submit' = [submit EXCEPT !.result = NullResult, !.error = NullError]
    /\ UNCHANGED <<canvas, reqVars, passVars>>

\* The promise handleSubmit awaits is settled.
Settle ==
    FetchRejects \/ FetchResolvesNotOk \/ FetchResolvesOk \/ JsonResolves \/ JsonRejects

\* The pipeline is drawn before and between the submissions.
Draw == DropUpTo(MaxPayloadNodes) \/ ConnectUpTo(MaxPayloadEdges)

NextSubmit ==
    \/ Draw
    \/ ClickSubmit
    \/ Serve
    \/ FetchRejects
    \/ FetchResolvesNotOk
    \/ FetchResolvesOk
    \/ JsonResolves
    \/ JsonRejects
    \/ CloseModal

\* Every request of fetch and every read of a body comes to an end, with a
\* value or with an exception.
SpecSubmit == Init /\ [][NextSubmit]_vars /\ WF_vars(Settle)

\* ------------------------------------------------- graph-theoretic notions
\* The graph a request denotes: its vertices are the distinct identifiers of
\* the node list, its arcs the edges with both ends among them.
Known == NodeIds(nodes)

Arcs ==
    LET K == Known IN
    {<<e.source, e.target>> : e \in {d \in Range(edges) : d.source \in K /\ d.target \in K}}

Dangling ==
    LET K == Known IN {e \in Range(edges) : e.source \notin K \/ e.target \notin K}

\* The pairs joined by a walk of one or more arcs of A: W grows by one more
\* arc until nothing new is joined.
RECURSIVE Walks(_, _)
Walks(W, A) ==
    LET longer == W \cup UNION {{<<w[1], a[2]>> : a \in {b \in A : b[1] = w[2]}} : w \in W}
    IN  IF longer = W THEN W ELSE Walks(longer, A)

Reach == LET A == Arcs IN Walks(A, A)

HasCycle == LET R == Reach IN \E v \in Known : <<v, v>> \in R

\* Two distinct nodes that reach each other: a cycle of two or more nodes.
HasLongCycle ==
    LET R == Reach IN \E u, v \in Known : u # v /\ <<u, v>> \in R /\ <<v, u>> \in R

Responded == pc = "responded"

Answered == Responded /\ response.status = "ok"

\* ---------------------------------------------------------------- claims
\* C1: is_dag returns true exactly when the graph of the distinct node
\* identifiers and of the edges with both ends among them has no directed
\* cycle, a self-loop counting as a cycle.
C1_IsDagIffAcyclic ==
    Responded => /\ response.status = "ok"
                 /\ response.is_dag = ~HasCycle

\* A cycle through three nodes, with no self-loop and no two-cycle, was
\* reported.
C1_Witness ==
    /\ Answered
    /\ Cardinality(Known) = 3
    /\ \A u, v \in Known : <<u, v>> \in Arcs => <<v, u>> \notin Arcs
    /\ HasCycle
    /\ response.is_dag = FALSE

\* C2: num_nodes is the length of the node list and num_edges the length of
\* the edge list, duplicates and dangling edges included, whatever is_dag is.
C2_CountsAreLengths ==
    Responded => /\ response.status = "ok"
                 /\ response.num_nodes = Len(nodes)
                 /\ response.num_edges = Len(edges)

\* A request with a repeated node identifier, a repeated edge and a dangling
\* edge was answered.
C2_Witness ==
    /\ Answered
    /\ Cardinality(Known) < Len(nodes)
    /\ Cardinality(Range(edges)) < Len(edges)
    /\ Dangling # {}
    /\ response.num_nodes = 3
    /\ response.num_edges = 3

\* The edge list with every edge removed whose source or target is no node.
WithoutDangling(es) ==
    LET K == Known IN SelectSeq(es, LAMBDA e : e.source \in K /\ e.target \in K)

\* C3: edges that name identifiers absent from the node list do not make the
\* detector fail, and removing all of them leaves is_dag unchanged, in
\* whatever order the pass without them iterates the nodes.
C3_DanglingEdgesIgnored ==
    Responded =>
        /\ response.status = "ok"
        /\ Dangling # {} =>
              \A ord \in Perms(Known) :
                  LET r == is_dag(nodes, WithoutDangling(edges), ord) IN
                  ~r.raised /\ r.ok = response.is_dag

\* Two dangling edges that would close a cycle through an identifier that is
\* no node (one has it as target, the other as source) were answered
\* acyclic.
C3_Witness ==
    /\ Answered
    /\ \E e1, e2 \in Range(edges) :
          /\ e1.source \in Known /\ e1.target \notin Known
          /\ e2.source = e1.target /\ e2.target = e1.source
    /\ response.is_dag = TRUE

SelfLoops == {v \in Known : <<v, v>> \in Arcs}

\* C4: when a node of the node list has an edge to itself, is_dag is false,
\* whatever else the request holds and wherever the outer loop starts.
C4_SelfLoopIsCycle ==
    (Responded /\ SelfLoops # {}) =>
        /\ response.status = "ok"
        /\ response.is_dag = FALSE

\* The only cycle is a self-loop, and the outer loop started from another
\* node that has edges of its own.
C4_Witness ==
    /\ Answered
    /\ Cardinality(SelfLoops) = 1
    /\ ~HasLongCycle
    /\ order[1] \notin SelfLoops
    /\ \E v \in Known : <<order[1], v>> \in Arcs
    /\ response.is_dag = FALSE

\* C5: a directed cycle of two or more known nodes makes is_dag false,
\* whatever its length and the order of the node list and the edge list.
C5_LongCycleIsCycle ==
    (Responded /\ HasLongCycle) =>
        /\ response.status = "ok"
        /\ response.is_dag = FALSE

\* A two-cycle without any self-loop, entered by the outer loop at the node
\* that comes second in the node list, its edges listed target-first.
C5_Witness ==
    /\ Answered
    /\ SelfLoops = {}
    /\ Len(nodes) = 2 /\ Len(edges) = 2
    /\ edges[1].source = nodes[2] /\ edges[1].target = nodes[1]
    /\ edges[2].source = nodes[1] /\ edges[2].target = nodes[2]
    /\ order[1] = nodes[2]
    /\ response.is_dag = FALSE

\* The request is a linear chain: distinct nodes n1..nk and exactly the k-1
\* edges n1->n2, ..., n(k-1)->nk, each listed once, in any order.
IsChain ==
    /\ Len(nodes) >= 1
    /\ Cardinality(Known) = Len(nodes)
    /\ Len(edges) = Len(nodes) - 1
    /\ \E p \in Perms(Known) :
          Range(edges) = {[source |-> p[i], target |-> p[i + 1]] : i \in 1..(Len(p) - 1)}

\* C6: a linear chain of distinct nodes with no other edge is acyclic,
\* whatever the order of the node list and of the edge list.
C6_ChainIsAcyclic ==
    (Responded /\ IsChain) =>
        /\ response.status = "ok"
        /\ response.is_dag = TRUE

\* A chain of four nodes, its node list and edge list out of chain order,
\* walked first from a node in the middle of the chain.
C6_Witness ==
    /\ Answered
    /\ IsChain
    /\ Len(nodes) = 4
    /\ nodes[1] = "C"
    /\ edges[1].source = "C"
    /\ order[1] = "B"
    /\ response.is_dag = TRUE

\* Some node has two distinct predecessors that descend from one ancestor
\* (or one of which is that ancestor).
SharedDescendant ==
    LET R == Reach IN
    \E b \in Known, c \in Known :
        /\ b # c
        /\ \E d \in Known : <<b, d>> \in Arcs /\ <<c, d>> \in Arcs
        /\ \E a \in Known : (a = b \/ <<a, b>> \in R) /\ (a = c \/ <<a, c>> \in R)

\* C7: a node reached from one ancestor along two different paths is no
\* cycle: every acyclic graph with a shared descendant is reported acyclic.
C7_SharedDescendantNoCycle ==
    (Responded /\ ~HasCycle /\ SharedDescendant) =>
        /\ response.status = "ok"
        /\ response.is_dag = TRUE

\* The diamond A->B, A->C, B->D, C->D walked from A: D is done when it is
\* met the second time.
C7_Witness ==
    /\ Answered
    /\ Known = {"A", "B", "C", "D"}
    /\ Arcs = {<<"A", "B">>, <<"A", "C">>, <<"B", "D">>, <<"C", "D">>}
    /\ order[1] = "A"
    /\ response.is_dag = TRUE

\* u and v lie in one component: joined by arcs taken in either direction.
Undirected == LET A == Arcs IN A \cup {<<a[2], a[1]>> : a \in A}

Joined == LET U == Undirected IN Walks(U, U)

SameComponent(u, v) == u = v \/ <<u, v>> \in Joined

Disconnected == LET J == Joined IN \E u, v \in Known : u # v /\ <<u, v>> \notin J

\* C8: with several disconnected components, a cycle in any one of them
\* makes is_dag false, whichever component the outer loop visits first.
C8_AnyCyclicComponentFails ==
    (Responded /\ HasCycle /\ Disconnected) =>
        /\ response.status = "ok"
        /\ response.is_dag = FALSE

\* Three components; the outer loop walked the two acyclic ones before it
\* came to the one with the cycle.
C8_Witness ==
    /\ Answered
    /\ Len(order) = 3
    /\ \A i, j \in 1..3 : i # j => ~SameComponent(order[i], order[j])
    /\ SelfLoops = {order[3]}
    /\ response.is_dag = FALSE

\* C9: an empty node list is a valid request: is_dag is true for every edge
\* list and num_edges is still the length of the edge list.
C9_EmptyNodeList ==
    (Responded /\ Len(nodes) = 0) =>
        /\ response.status = "ok"
        /\ response.is_dag = TRUE
        /\ response.num_nodes = 0
        /\ response.num_edges = Len(edges)

\* No node, and an edge list holding a self-loop twice and one more edge.
C9_Witness ==
    /\ Answered
    /\ Len(nodes) = 0
    /\ Len(edges) = 3
    /\ edges[1] = edges[2]
    /\ edges[1].source = edges[1].target
    /\ edges[3] # edges[1]
    /\ response.is_dag = TRUE

\* C10: a non-empty node list with no edge between known nodes (one node,
\* or any number of isolated nodes) is acyclic.
C10_IsolatedNodesAcyclic ==
    (Responded /\ Len(nodes) >= 1 /\ Arcs = {}) =>
        /\ response.status = "ok"
        /\ response.is_dag = TRUE

\* Two isolated nodes, with one edge leaving a node for an unknown target
\* and one edge from an unknown source to a node.
C10_Witness ==
    /\ Answered
    /\ Cardinality(Known) = 2
    /\ Arcs = {}
    /\ \E e \in Range(edges) : e.source \in Known /\ e.target \notin Known
    /\ \E e \in Range(edges) : e.source \notin Known /\ e.target \in Known
    /\ response.is_dag = TRUE

\* ------------------------------------------- requests for list reshuffles
MaxPermEdges == 2

\* Node lists without repeated identifier, in any order; any edge list.
ReceivePerm ==
    /\ pc = "idle"
    /\ \E ns \in DistinctSeqs(Ids, Cardinality(Ids)), es \in SeqsUpTo(Edge, MaxPermEdges) :
          /\ nodes' = ns
          /\ edges' = es
    /\ pc' = "handling"
    /\ UNCHANGED <<order, response>>
    /\ UNCHANGED passVars
    /\ UNCHANGED uiVars

NextPerm == ReceivePerm \/ ParsePipeline \/ Respond

SpecPerm == Init /\ [][NextPerm]_vars

\* ---------------------------------------------- two calls at the same time
MaxConcEdges == 1

ConcIds == {"A", "B"}

ConcEdge == [source : ConcIds, target : ConcIds]

\* Worker p takes a request of its own.
SubmitConc(p) ==
    /\ wpc[p] = "idle"
    /\ \E ns \in DistinctSeqs(ConcIds, Cardinality(ConcIds)),
          es \in SeqsUpTo(ConcEdge, MaxConcEdges) :
          Submit(p, ns, es)

\* parse_pipeline is a plain `def`: the server runs each call on a thread of
\* its pool, and the threads take their steps in any order.
NextConc == \E p \in Workers : SubmitConc(p) \/ Run(p) \/ Close(p)

SpecConc == Init /\ [][NextConc]_vars

\* ------------------------------------------- the same request sent twice
MaxTwiceEdges == 2

\* The client sends the request it has an answer for once more: the handler
\* runs again on equal lists. What the first call left on the heap is kept
\* here until the second call builds its own node_ids, adj and color.
Reinvoke(p) ==
    /\ wpc[p] = "responded"
    /\ prev[p] = NoResponse
    /\ prev' = [prev EXCEPT ![p] = wresponse[p]]
    /\ wpc' = [wpc EXCEPT ![p] = "received"]
    /\ UNCHANGED <<wnodes, wedges, word, wadj, wcolor, wstack, wk, wresult, wentered, wresponse>>
    /\ UNCHANGED reqVars
    /\ UNCHANGED uiVars

SubmitTwice ==
    /\ wpc[1] = "idle"
    /\ \E ns \in DistinctSeqs(Ids, Cardinality(Ids)), es \in SeqsUpTo(Edge, MaxTwiceEdges) :
          Submit(1, ns, es)

NextTwice ==
    \/ SubmitTwice
    \/ Call(1)
    \/ OuterStep(1)
    \/ Examine(1)
    \/ LoopEnd(1)
    \/ Unwind(1)
    \/ Reply(1)
    \/ Reinvoke(1)
    \/ Close(1)

SpecTwice == Init /\ [][NextTwice]_vars

\* ------------------------------------------ a call that is left to run
MaxLiveNodes == 2

MaxLiveEdges == 2

\* Any well-formed request: repeated identifiers, dangling edges, self-loops
\* and repeated edges included.
SubmitLive ==
    /\ wpc[1] = "idle"
    /\ \E ns \in SeqsUpTo(Ids, MaxLiveNodes), es \in SeqsUpTo(Edge, MaxLiveEdges) :
          Submit(1, ns, es)

NextLive ==
    \/ SubmitLive
    \/ Call(1)
    \/ OuterStep(1)
    \/ Examine(1)
    \/ LoopEnd(1)
    \/ Unwind(1)
    \/ Reply(1)
    \/ Close(1)

\* The thread that runs the handler is scheduled again and again until the
\* handler returns.
SpecLive == Init /\ [][NextLive]_vars /\ WF_vars(Run(1))

\* ------------------------------------------------- claims about one pass
\* Worker p is inside a pass of is_dag, or has just returned from it.
InPass(p) == wpc[p] \in {"outer", "dfs", "unwind", "returned"}

Gray(p) == {n \in DOMAIN wcolor[p] : wcolor[p][n] = GRAY}

Black(p) == {n \in DOMAIN wcolor[p] : wcolor[p][n] = BLACK}

White(p) == {n \in DOMAIN wcolor[p] : wcolor[p][n] = WHITE}

\* The nodes on the recursion path, from the start node to the innermost.
Path(p) == [j \in 1..Len(wstack[p]) |-> wstack[p][j].node]

\* The known neighbours of n in the adjacency map of p.
KnownNeighbors(p, n) == Range(AdjGet(wadj[p], n)) \cap DOMAIN wcolor[p]

PassArcs(p) ==
    UNION {{<<n, m>> : m \in KnownNeighbors(p, n)} : n \in DOMAIN wcolor[p]}

\* C16: during a pass the colour of a known node changes only from WHITE to
\* GRAY and from GRAY to BLACK; a BLACK node stays BLACK until the pass ends.
C16_ColorsOnlyAdvance ==
    [][\A p \in Workers :
          (InPass(p) /\ InPass(p)') =>
              \A n \in DOMAIN wcolor[p] :
                  /\ n \in DOMAIN wcolor'[p]
                  /\ \/ wcolor'[p][n] = wcolor[p][n]
                     \/ wcolor[p][n] = WHITE /\ wcolor'[p][n] = GRAY
                     \/ wcolor[p][n] = GRAY /\ wcolor'[p][n] = BLACK]_vars

\* In the middle of a walk one node is done, one in progress, one unvisited.
C16_Witness ==
    /\ wpc[1] = "dfs"
    /\ Black(1) # {} /\ Gray(1) # {} /\ White(1) # {}

\* C17: within one pass dfs is entered at most once per known node, and only
\* while the node is unvisited: a node that was entered is never WHITE
\* again, and a done node is not entered again.
C17_EnteredAtMostOnce ==
    \A p \in Workers :
        InPass(p) =>
            \A n \in DOMAIN wentered[p] :
                /\ wentered[p][n] <= 1
                /\ wentered[p][n] = 0 <=> n \in White(p)

\* A pass came back true after it met a node with two known predecessors
\* twice: every node was entered exactly once.
C17_Witness ==
    /\ wpc[1] = "returned"
    /\ wresult[1].ok
    /\ Cardinality(DOMAIN wentered[1]) = 3
    /\ \A n \in DOMAIN wentered[1] : wentered[1][n] = 1
    /\ \E a, b, c \in DOMAIN wcolor[1] :
          a # b /\ <<a, c>> \in PassArcs(1) /\ <<b, c>> \in PassArcs(1)

\* The in-progress nodes are the nodes of the recursion path, each with an
\* edge in the adjacency map to the next one.
PathIsGray(p) ==
    /\ Gray(p) = Range(Path(p))
    /\ \A j \in 1..(Len(wstack[p]) - 1) :
          Path(p)[j + 1] \in Range(AdjGet(wadj[p], Path(p)[j]))

C19_DoneIsClosed ==
    \A p \in Workers :
        InPass(p) =>
            LET B == Black(p) IN
            /\ \A n \in B : KnownNeighbors(p, n) \subseteq B
            /\ B # {} => LET A == PassArcs(p)
                              R == Walks(A, A)
                          IN  \A n \in B : <<n, n>> \notin R

\* Two nodes are done, one the neighbour of the other, while a third one is
\* in progress on a cycle.
C19_Witness ==
    /\ wpc[1] = "unwind"
    /\ \E n, m \in Black(1) : n # m /\ m \in KnownNeighbors(1, n)
    /\ Gray(1) # {}

\* C20: once a neighbour is found in progress, the pass goes straight to
\* reporting not-acyclic: no frame moves on to another neighbour, no walk is
\* started from another node, and no colour changes (finding the back edge
\* itself changes none either), so the nodes of the path stay in progress.
C20_AbortIsImmediate ==
    [][\A p \in Workers :
          /\ (wpc'[p] = "unwind") => wcolor'[p] = wcolor[p]
          /\ (wpc[p] = "unwind") =>
                /\ wcolor'[p] = wcolor[p]
                /\ wk'[p] = wk[p]
                /\ wentered'[p] = wentered[p]
                /\ wstack'[p] = wstack[p] \/ wstack'[p] = Pop(wstack[p])
                /\ \/ wpc'[p] = "unwind"
                   \/ wpc'[p] = "returned" /\ wresult'[p] = Returned(FALSE)
          /\ (wpc[p] = "returned" /\ ~wresult[p].ok /\ wpc'[p] = "responded") =>
                /\ wcolor'[p] = wcolor[p]
                /\ Gray(p) # {}
                /\ wresponse'[p].is_dag = FALSE]_vars

\* A back edge was found two calls deep while a neighbour of the start node
\* and another start node were still waiting.
C20_Witness ==
    /\ wpc[1] = "unwind"
    /\ Len(wstack[1]) = 1
    /\ wstack[1][1].i < Len(AdjGet(wadj[1], wstack[1][1].node))
    /\ White(1) # {}
    /\ wk[1] < Len(word[1])

\* The step-by-step pass returns what is_dag returns for the same lists and
\* the same iteration order.
PassAgreesWithIsDag ==
    \A p \in Workers :
        wpc[p] = "returned" =>
            LET r == is_dag(wnodes[p], wedges[p], word[p]) IN
            /\ wresult[p].raised = r.raised
            /\ wresult[p].ok = r.ok

\* ------------------------------------------- claims about repeated calls
\* p is in, or has finished, its second call on the same request.
SecondCall(p) == prev[p] # NoResponse

\* C11: the second call on the same node list and edge list answers with the
\* same num_nodes, num_edges and is_dag as the first, whatever order either
\* call iterates node_ids in, and it starts from fresh maps: a node has a
\* colour other than WHITE only if this call entered dfs for it.
C11_SecondCallSameAnswer ==
    \A p \in Workers :
        SecondCall(p) =>
            /\ wpc[p] = "responded" => wresponse[p] = prev[p]
            /\ wpc[p] \in {"outer", "dfs", "unwind"} =>
                  /\ DOMAIN wcolor[p] = NodeIds(wnodes[p])
                  /\ \A n \in DOMAIN wcolor[p] :
                        wcolor[p][n] = WHITE <=> wentered[p][n] = 0

\* The second call has answered not-acyclic, as the first did, after the
\* first had left nodes in progress.
C11_Witness ==
    /\ SecondCall(1)
    /\ wpc[1] = "responded"
    /\ wresponse[1].status = "ok"
    /\ ~wresponse[1].is_dag
    /\ wresponse[1].num_nodes = 3
    /\ wresponse[1].num_edges = 2

Reorderings(s) ==
    {[i \in 1..Len(s) |-> s[f[i]]] : f \in Perms(1..Len(s))}

\* s with x put in as its j-th entry.
Insert(s, j, x) == SubSeq(s, 1, j - 1) \o <<x>> \o SubSeq(s, j, Len(s))

\* C12: whatever the order of the node list, the order of the edge list
\* (hence of every neighbour list) and the order in which node_ids is
\* iterated, is_dag gives the value the response carries.
C12_OrderIndependent ==
    (Responded /\ response.status = "ok") =>
        \A ns \in Reorderings(nodes), es \in Reorderings(edges) :
            \A ord \in Perms(NodeIds(ns)) :
                LET r == is_dag(ns, es, ord) IN
                ~r.raised /\ r.ok = response.is_dag

\* Three nodes and two edges that close a cycle not reached from the first
\* node: both lists have other orders, and the orders start walks differently.
C12_Witness ==
    /\ Responded
    /\ response.status = "ok"
    /\ ~response.is_dag
    /\ Cardinality(Range(nodes)) = 3
    /\ Cardinality(Range(edges)) = 2
    /\ \A i \in 1..Len(edges) : edges[i].source # order[1]

\* C13: a second copy of an edge of the list, or a second entry with an
\* identifier of the node list, put in at any place, leaves is_dag as it was
\* and the set of known nodes as it was, and makes num_edges, respectively
\* num_nodes, one larger.
C13_DuplicatesKeepVerdict ==
    (Responded /\ response.status = "ok") =>
        /\ \A i \in 1..Len(edges), j \in 1..(Len(edges) + 1) :
              parse_pipeline(nodes, Insert(edges, j, edges[i]), order) =
                  [response EXCEPT !.num_edges = @ + 1]
        /\ \A i \in 1..Len(nodes), j \in 1..(Len(nodes) + 1) :
              /\ NodeIds(Insert(nodes, j, nodes[i])) = NodeIds(nodes)
              /\ parse_pipeline(Insert(nodes, j, nodes[i]), edges, order) =
                    [response EXCEPT !.num_nodes = @ + 1]

\* An acyclic request that has an edge and a known node to repeat.
C13_Witness ==
    /\ Responded
    /\ response.status = "ok"
    /\ response.is_dag
    /\ \E i \in 1..Len(edges) : {edges[i].source, edges[i].target} \subseteq Range(nodes)
    /\ Len(nodes) = 2

\* --------------------------------------- claims about simultaneous calls
\* No step was taken by worker p: its position in the code is the same.
Stays(p) ==
    /\ wpc'[p] = wpc[p]
    /\ wstack'[p] = wstack[p]
    /\ wk'[p] = wk[p]

\* C15: while two calls take their steps in any interleaving, the maps of a
\* call change only by that call's own steps and hold only that call's
\* nodes, and each call returns what is_dag returns for its lists alone.
C15_CallsDoNotInterfere ==
    /\ [][\A p \in Workers :
            Stays(p) => (wcolor'[p] = wcolor[p] /\ wadj'[p] = wadj[p])]_vars
    /\ [](\A p \in Workers :
            /\ wpc[p] \in {"outer", "dfs", "unwind"} =>
                  /\ DOMAIN wcolor[p] = NodeIds(wnodes[p])
                  /\ DOMAIN wadj[p] = NodeIds(wnodes[p])
            /\ wpc[p] = "returned" =>
                  LET r == is_dag(wnodes[p], wedges[p], word[p]) IN
                  wresult[p].raised = r.raised /\ wresult[p].ok = r.ok)

\* One call has returned acyclic while the other is returning from a
\* cycle through a node that the first has marked BLACK.
C15_Witness ==
    /\ wpc[1] = "returned" /\ wresult[1].ok
    /\ wpc[2] = "unwind"
    /\ \E n \in DOMAIN wcolor[1] \cap DOMAIN wcolor[2] :
          wcolor[1][n] = BLACK /\ wcolor[2][n] = GRAY

\* ----------------------------------------- claims about the maps of a pass
\* p has built its maps: it is between the first turn of the outer loop and
\* the return of is_dag on a node list that is not empty.
Built(p) ==
    \/ wpc[p] \in {"outer", "dfs", "unwind"}
    \/ wpc[p] = "returned" /\ ~EmptyNodes(wnodes[p])

\* The identifiers that occur as target of an edge but not in the node list.
PassDangling(p) ==
    {wedges[p][i].target : i \in 1..Len(wedges[p])} \ NodeIds(wnodes[p])

\* C21: throughout a pass exactly the known identifiers have a colour; an
\* edge target that is not in the node list has none, is never entered by
\* dfs, is never a start node, is skipped without an exception, and the
\* answer is that of the arcs between known nodes alone.
C21_OnlyKnownColored ==
    \A p \in Workers :
        Built(p) =>
            /\ ~wresult[p].raised
            /\ DOMAIN wcolor[p] = NodeIds(wnodes[p])
            /\ DOMAIN wentered[p] = NodeIds(wnodes[p])
            /\ Range(Path(p)) \subseteq NodeIds(wnodes[p])
            /\ Range(word[p]) = NodeIds(wnodes[p])
            /\ (wpc[p] = "returned" /\ PassDangling(p) # {}) =>
                  LET A == PassArcs(p)
                      R == Walks(A, A)
                  IN  wresult[p].ok <=> (\A n \in NodeIds(wnodes[p]) : <<n, n>> \notin R)

\* The neighbour loop has just passed over a target that is not in the node
\* list.
C21_Witness ==
    /\ wpc[1] = "dfs"
    /\ LET f == Top(wstack[1])
           nbrs == AdjGet(wadj[1], f.node)
       IN  /\ f.i > 1
           /\ f.i <= Len(nbrs)
           /\ nbrs[f.i - 1] \in PassDangling(1)
           /\ nbrs[f.i - 1] \notin DOMAIN wcolor[1]

\* C22: from the first turn of the outer loop to the return, no step changes
\* adj, the keys of color, or the order of node_ids; and from the request to
\* the response the node list and the edge list stay as submitted.
C22_MapsAreFixed ==
    [][\A p \in Workers :
          /\ (wpc[p] \in {"received", "outer", "dfs", "unwind", "returned"}) =>
                (wnodes'[p] = wnodes[p] /\ wedges'[p] = wedges[p])
          /\ (Built(p) /\ wpc[p] # "returned") =>
                /\ wadj'[p] = wadj[p]
                /\ DOMAIN wcolor'[p] = DOMAIN wcolor[p]
                /\ word'[p] = word[p]]_vars

\* A walk over a node with two neighbours is over; the lists of adj are
\* those the builder made.
C22_Witness ==
    /\ wpc[1] = "returned"
    /\ wresult[1].ok
    /\ \E n \in DOMAIN wadj[1] : Len(wadj[1][n]) = 2
    /\ Black(1) = NodeIds(wnodes[1])
    /\ Len(wnodes[1]) = 3

\* The targets of the edges of es whose source is n, in the order of es.
RECURSIVE TargetsOf(_, _)
TargetsOf(es, n) ==
    IF es = <<>> THEN <<>>
    ELSE (IF Head(es).source = n THEN <<Head(es).target>> ELSE <<>>)
             \o TargetsOf(Tail(es), n)

\* C23: the keys of adj are the distinct identifiers of the node list; each
\* key maps to the targets of the edges that leave it, in edge-list order,
\* repeated edges and unknown targets kept; an edge with an unknown source is
\* in no list; and each frame of dfs is at a position of its node's list and
\* moves on by one neighbour at a time.
C23_AdjacencyAsBuilt ==
    /\ [](\A p \in Workers :
            Built(p) =>
                /\ DOMAIN wadj[p] = NodeIds(wnodes[p])
                /\ \A n \in DOMAIN wadj[p] : wadj[p][n] = TargetsOf(wedges[p], n)
                /\ \A j \in 1..Len(wstack[p]) :
                      wstack[p][j].i \in 1..(Len(AdjGet(wadj[p], wstack[p][j].node)) + 1))
    /\ [][\A p \in Workers :
            \A j \in 1..Len(wstack[p]) :
                (j <= Len(wstack'[p]) /\ wpc'[p] = "dfs") =>
                    /\ wstack'[p][j].node = wstack[p][j].node
                    /\ wstack'[p][j].i \in {wstack[p][j].i, wstack[p][j].i + 1}]_vars

\* A pass over a repeated edge, an edge to an unknown target and an edge
\* from an unknown source.
C23_Witness ==
    /\ wpc[1] = "outer"
    /\ Len(wedges[1]) = 3
    /\ wedges[1][1] = wedges[1][2]
    /\ wedges[1][1].source \in NodeIds(wnodes[1])
    /\ wedges[1][1].target \notin NodeIds(wnodes[1])
    /\ wedges[1][3].source \notin NodeIds(wnodes[1])

\* C24: when is_dag returns True every known node is BLACK; when it returns
\* False at least one known node is GRAY.
C24_ColorsAtReturn ==
    \A p \in Workers :
        (wpc[p] = "returned" /\ ~wresult[p].raised) =>
            /\ wresult[p].ok =>
                  \A n \in NodeIds(wnodes[p]) :
                      n \in DOMAIN wcolor[p] /\ wcolor[p][n] = BLACK
            /\ ~wresult[p].ok => Gray(p) # {}

\* A pass over two components that share no edge has returned True.
C24_Witness ==
    /\ wpc[1] = "returned"
    /\ wresult[1].ok
    /\ Len(wnodes[1]) = 3
    /\ Cardinality(PassArcs(1)) = 1
    /\ Black(1) = NodeIds(wnodes[1])

\* The sequences of distinct known nodes in which each has a known arc to
\* the next.
SimplePaths(p) ==
    LET A == PassArcs(p) IN
    {q \in DistinctSeqs(DOMAIN wcolor[p], Cardinality(DOMAIN wcolor[p])) :
        \A j \in 1..(Len(q) - 1) : <<q[j], q[j + 1]>> \in A}

\* The number of nodes on a longest simple path, of those in the set SP.
LongestSimplePath(SP) ==
    LET L == {Len(q) : q \in SP}
    IN  CHOOSE m \in L : \A x \in L : x <= m

\* C25: the frames of dfs hold pairwise distinct nodes that form a simple
\* path of the graph, so there are no more of them than nodes on a longest
\* simple path, and no more than distinct known nodes.
C25_StackIsSimplePath ==
    \A p \in Workers :
        (wstack[p] # <<>> /\ Built(p)) =>
            /\ \A i, j \in 1..Len(wstack[p]) : i # j => Path(p)[i] # Path(p)[j]
            /\ Len(wstack[p]) <= Cardinality(NodeIds(wnodes[p]))
            /\ LET SP == SimplePaths(p) IN
               /\ Path(p) \in SP
               /\ Len(wstack[p]) <= LongestSimplePath(SP)

\* The walk is three calls deep on a graph that has a path of three nodes.
C25_Witness ==
    /\ wpc[1] = "dfs"
    /\ Len(wstack[1]) = 3
    /\ Path(1) \in SimplePaths(1)

\* C26: two passes over the same node list and edge list iterate node_ids in
\* the same order. The second call may run in another interpreter process
\* than the first (a restart, another server worker), where the strings of
\* the set node_ids hash differently; `word` still holds the order of the
\* first call when the second builds its own.
C26_SameOrderBothTimes ==
    [][\A p \in Workers :
          (SecondCall(p) /\ wpc[p] = "received" /\ wpc'[p] = "outer") =>
              word'[p] = word[p]]_vars

\* ------------------------------------------------ claims about the canvas
\* C27: all identifiers getNodeID has handed out are pairwise distinct: the
\* nodes on the canvas carry different identifiers, each is made of its type
\* and a count that the counter of the type has reached, and a further call
\* for any type returns an identifier no node has.
C27_NodeIdsDistinct ==
    /\ \A i, j \in 1..Len(canvas.nodes) :
          i # j => canvas.nodes[i].id # canvas.nodes[j].id
    /\ \A i \in 1..Len(canvas.nodes) :
          \E n \in 1..Counter(canvas.nodeIDs, canvas.nodes[i].type) :
              canvas.nodes[i].id = canvas.nodes[i].type \o "-" \o ToString(n)
    /\ \A type \in NodeTypes, i \in 1..Len(canvas.nodes) :
          getNodeID(canvas.nodeIDs, type).id # canvas.nodes[i].id

\* Three nodes, two of one type, after a node of that type was erased.
C27_Witness ==
    /\ Len(canvas.nodes) = 2
    /\ Issued(canvas.nodeIDs, NodeTypes) = 3
    /\ canvas.nodes[1].type # canvas.nodes[2].type
    /\ \E t \in NodeTypes : Counter(canvas.nodeIDs, t) = 2

NodeIdsOf(c) == {c.nodes[i].id : i \in 1..Len(c.nodes)}

\* C28: after a click on a node in eraser mode the node is gone and no
\* connection has it as source or target; a click on a node or on a
\* connection with the eraser off changes neither list.
C28_EraserRemovesNodeAndEdges ==
    /\ []((canvas.event.type = "node" /\ canvas.eraserMode) =>
            /\ canvas.event.id \notin NodeIdsOf(canvas)
            /\ \A i \in 1..Len(canvas.edges) :
                  /\ canvas.edges[i].source # canvas.event.id
                  /\ canvas.edges[i].target # canvas.event.id)
    /\ [][(canvas'.event # NoEvent /\ ~canvas.eraserMode) =>
            (canvas'.nodes = canvas.nodes /\ canvas'.edges = canvas.edges)]_vars

\* A node was just erased together with its two connections; the other
\* nodes are still there.
C28_Witness ==
    /\ canvas.event.type = "node"
    /\ canvas.eraserMode
    /\ canvas.event.removed = 2
    /\ Len(canvas.nodes) = 2
    /\ canvas.edges = <<>>

\* ----------------------------------------- claims about the submit button
\* C29: isLoading is true from the start of a run of handleSubmit to its
\* end and false outside of it, whatever the outcome, and every run that
\* set it comes to set it back: the button is enabled again.
C29_LoadingIsReset ==
    /\ [](submit.isLoading <=> submit.pc # "idle")
    /\ [][(submit.pc = "idle" /\ submit'.pc # "idle") => submit'.isLoading]_vars
    /\ [][(submit.pc # "idle" /\ submit'.pc = "idle") => ~submit'.isLoading]_vars
    /\ submit.isLoading ~> ~submit.isLoading

\* A run over a pipeline of two nodes and a connection is over with a
\* result, and the button is enabled.
C29_Witness ==
    /\ ~submit.isLoading
    /\ submit.result # NullResult
    /\ submit.result.num_nodes = 2
    /\ submit.result.num_edges = 1

\* C30: result and error are never both set: a run clears both when it
\* starts and sets exactly one of them when it ends, result after a
\* response that was OK and parsed, error otherwise.
C30_ResultXorError ==
    /\ [](submit.result = NullResult \/ submit.error = NullError)
    /\ [][(submit'.pc = "fetch" /\ submit # submit') =>
            (submit'.result = NullResult /\ submit'.error = NullError)]_vars
    /\ [][(submit.pc # "idle" /\ submit'.pc = "idle") =>
            /\ (submit'.result # NullResult) # (submit'.error # NullError)
            /\ (submit'.result # NullResult) => submit.pc = "json"]_vars

\* A run has ended with a status that is not OK: the error is set, the
\* result is not.
C30_Witness ==
    /\ submit.pc = "idle"
    /\ submit.error = "HTTP error! status: 500"
    /\ submit.result = NullResult
====
